---- MODULE Spec2Model ----
(***************************************************************************)
(* Model of the pngme chunk codec: src/src/chunk_type.rs (ChunkType) and   *)
(* src/src/chunk.rs (Chunk).                                               *)
(*                                                                         *)
(* Representation of machine integers.  TLC's integers are 32-bit signed,  *)
(* so a Rust u32 is kept as two 16-bit limbs [hi, lo] (value               *)
(* hi * 65536 + lo, both limbs in 0..65535).  A usize of the 64-bit target *)
(* has the same shape with an unbounded hi limb.  A byte is a number in    *)
(* 0..255, a Vec<u8> or slice is a sequence of bytes, a str is a sequence  *)
(* of Unicode code points.                                                 *)
(*                                                                         *)
(* Results.  Ok(x) is [kind |-> "Ok", val |-> x], an anyhow error is       *)
(* [kind |-> "Err", error |-> <name>, ...], and a panic (an aborted call)  *)
(* is [kind |-> "Panic"].  The error names stand for the messages of the   *)
(* bail! calls:                                                            *)
(*   "not an ascii alphabetic byte"          InvalidTypeByte               *)
(*   "reserved bit not valid"                ReservedBitInvalid            *)
(*   "string is not composed of 4 bytes"     WrongLength                   *)
(*   "string should be ascii"                NonAscii                      *)
(*   "length field (..) should not exceed"   LengthTooLarge                *)
(*   "checksums do not match. Got .."        ChecksumMismatch              *)
(* No bail! of the source reports a truncated buffer.                      *)
(***************************************************************************)
EXTENDS Integers, Sequences, FiniteSets, TLC

Ok(x) == [kind |-> "Ok", val |-> x]

Err(e) == [kind |-> "Err", error |-> e]

Panic == [kind |-> "Panic"]

(***************************************************************************)
(* Bit operations on bytes and limbs.                                      *)
(***************************************************************************)
RECURSIVE BitAnd(_, _, _)
BitAnd(a, b, n) ==
    IF n = 0 THEN 0
    ELSE ((a % 2) * (b % 2)) + 2 * BitAnd(a \div 2, b \div 2, n - 1)

RECURSIVE BitXor(_, _, _)
BitXor(a, b, n) ==
    IF n = 0 THEN 0
    ELSE (((a % 2) + (b % 2)) % 2) + 2 * BitXor(a \div 2, b \div 2, n - 1)

RECURSIVE Pow(_, _)
Pow(b, n) == IF n = 0 THEN 1 ELSE b * Pow(b, n - 1)

(***************************************************************************)
(* u32 and usize.                                                          *)
(***************************************************************************)
NatToUSize(n) == [hi |-> n \div 65536, lo |-> n % 65536]

\* `x as u32` for a usize x: keeps the low 32 bits.
USizeAsU32(x) == [hi |-> x.hi % 65536, lo |-> x.lo]

\* `x as usize` for a u32 x on the 64-bit target: zero extension.
U32AsUSize(x) == [hi |-> x.hi, lo |-> x.lo]

USizeAdd(x, k) ==
    LET s == x.lo + k IN [hi |-> x.hi + (s \div 65536), lo |-> s % 65536]

\* x <= n for a usize x and a buffer size n below 65536.
USizeLeNat(x, n) == x.hi = 0 /\ x.lo <= n

\* The value of a usize that is known to be below 65536.
USizeToNat(x) == (x.hi * 65536) + x.lo

U32Gt(a, b) == a.hi > b.hi \/ (a.hi = b.hi /\ a.lo > b.lo)

U32_MAX == [hi |-> 65535, lo |-> 65535]

to_be_bytes(x) == <<x.hi \div 256, x.hi % 256, x.lo \div 256, x.lo % 256>>

from_be_bytes(b) == [hi |-> (b[1] * 256) + b[2], lo |-> (b[3] * 256) + b[4]]

\* `f as u32` for a float literal f = m * 10^e (m in 1..9): the cast
\* saturates, every value of 2^32 or more becomes u32::MAX.
F64AsU32(f) ==
    IF f.e >= 10 \/ (f.e = 9 /\ f.m >= 5)
    THEN U32_MAX
    ELSE USizeAsU32(NatToUSize(f.m * Pow(10, f.e)))

\* The literal 2e31 of Chunk::try_from: two times ten to the 31st.
LengthLimitLiteral == [m |-> 2, e |-> 31]

(***************************************************************************)
(* CRC-32/ISO-HDLC, the algorithm behind crc::Crc::<u32>::checksum:        *)
(* reflected polynomial 0xEDB88320, initial value and final xor            *)
(* 0xFFFFFFFF, one table lookup per byte.                                  *)
(***************************************************************************)
\* Exclusive or, four bits at a time.
XorTable == [a \in 0..15 |-> [b \in 0..15 |-> BitXor(a, b, 4)]]

Xor8(a, b) ==
    (XorTable[a \div 16][b \div 16] * 16) + XorTable[a % 16][b % 16]

Xor16(a, b) ==
    (Xor8(a \div 256, b \div 256) * 256) + Xor8(a % 256, b % 256)

XorU32(a, b) == [hi |-> Xor16(a.hi, b.hi), lo |-> Xor16(a.lo, b.lo)]

Shr1(x) == [hi |-> x.hi \div 2, lo |-> ((x.hi % 2) * 32768) + (x.lo \div 2)]

Shr8(x) == [hi |-> x.hi \div 256, lo |-> ((x.hi % 256) * 256) + (x.lo \div 256)]

CrcPoly == [hi |-> 60856, lo |-> 33568]

RECURSIVE CrcShift(_, _)
CrcShift(c, k) ==
    IF k = 0 THEN c
    ELSE CrcShift(IF c.lo % 2 = 1 THEN XorU32(Shr1(c), CrcPoly) ELSE Shr1(c),
                  k - 1)

CrcTable == [i \in 0..255 |-> CrcShift([hi |-> 0, lo |-> i], 8)]

CrcUpdate(c, byte) ==
    XorU32(CrcTable[Xor8(c.lo % 256, byte)], Shr8(c))

IsU32(x) == x.hi \in 0..65535 /\ x.lo \in 0..65535

\* The bytes first..last fed in order to the register c, a u32.  The range
\* is halved so that the evaluation stays shallow for long inputs.
RECURSIVE CrcFold(_, _, _, _)
CrcFold(c, bytes, first, last) ==
    IF ~IsU32(c) \/ first > last THEN c
    ELSE IF first = last THEN CrcUpdate(c, bytes[first])
    ELSE LET mid == (first + last) \div 2 IN
         CrcFold(CrcFold(c, bytes, first, mid), bytes, mid + 1, last)

checksum(bytes) == XorU32(CrcFold(U32_MAX, bytes, 1, Len(bytes)), U32_MAX)

(***************************************************************************)
(* ChunkType (src/src/chunk_type.rs).  A ChunkType is the sequence of its  *)
(* four bytes.                                                             *)
(***************************************************************************)
FIFTH_BIT == 32

Shr5(b) == b \div 32

\* u8::is_ascii_alphabetic and char::is_ascii_alphabetic.
is_ascii_alphabetic(c) == (65 <= c /\ c <= 90) \/ (97 <= c /\ c <= 122)

bytes(ct) == ct

is_valid(ct) == Shr5(BitAnd(ct[3], FIFTH_BIT, 8)) = 0

is_critical(ct) == Shr5(BitAnd(ct[1], FIFTH_BIT, 8)) = 0

is_public(ct) == Shr5(BitAnd(ct[2], FIFTH_BIT, 8)) = 0

is_reserved_bit_valid(ct) == is_valid(ct)

\* is_safe_to_copy reading the third byte instead of the fourth.
is_safe_to_copy_third(ct) == Shr5(BitAnd(ct[3], FIFTH_BIT, 8)) = 1

is_safe_to_copy(ct) == Shr5(BitAnd(ct[4], FIFTH_BIT, 8)) = 1

\* The reserved-bit test comparing the masked bit with the mask.
ReservedBitCheck_masked(val) == BitAnd(val, FIFTH_BIT, 8) = FIFTH_BIT

\* The reserved-bit test made on the third byte inside the loop of try_from.
ReservedBitCheck(val) == BitAnd(val, FIFTH_BIT, 8) = 1

\* The loop of try_from, from the byte at (1-based) position idx on.
RECURSIVE TypeLoop(_, _)
TypeLoop(value, idx) ==
    IF idx > 4 THEN Ok(value)
    ELSE IF ~is_ascii_alphabetic(value[idx]) THEN Err("InvalidTypeByte")
    ELSE IF idx = 3 /\ ReservedBitCheck(value[idx]) THEN Err("ReservedBitInvalid")
    ELSE TypeLoop(value, idx + 1)

ChunkType_try_from(value) == TypeLoop(value, 1)

\* A length counted in characters: every code point counts for one.
Utf8Len_chars(c) == IF c < 0 THEN 0 ELSE 1

\* Number of bytes of the UTF-8 encoding of a code point.
Utf8Len(c) == IF c < 128 THEN 1 ELSE IF c < 2048 THEN 2 ELSE IF c < 65536 THEN 3 ELSE 4

\* str::len: the size of the text in bytes.
RECURSIVE str_len(_)
str_len(s) == IF s = <<>> THEN 0 ELSE Utf8Len(Head(s)) + str_len(Tail(s))

is_ascii(s) == \A i \in 1..Len(s) : s[i] < 128

\* The map/collect of from_str: the first non-alphabetic character ends it
\* with an error, otherwise each character is cast to u8.
CollectChars(s) ==
    IF \E i \in 1..Len(s) : ~is_ascii_alphabetic(s[i])
    THEN Err("InvalidTypeByte")
    ELSE Ok([i \in 1..Len(s) |-> s[i] % 256])

from_str(s) ==
    IF str_len(s) # 4 THEN Err("WrongLength")
    ELSE IF ~is_ascii(s) THEN Err("NonAscii")
    ELSE LET v == CollectChars(s) IN
         IF v.kind # "Ok" THEN v
         ELSE IF Len(v.val) # 4 THEN Panic
         ELSE ChunkType_try_from(v.val)

\* Display for ChunkType: each byte written as the char of the same value.
to_string(ct) == [i \in 1..4 |-> ct[i]]

(***************************************************************************)
(* Chunk (src/src/chunk.rs).                                               *)
(***************************************************************************)
\* A checksum that covers the payload alone.
data_crc_payload(chunk_type, data) == data

\* The bytes the checksum of Chunk::new covers.
data_crc(chunk_type, data) == bytes(chunk_type) \o data

Chunk_new(chunk_type, data) ==
    [length     |-> USizeAsU32(NatToUSize(Len(data))),
     chunk_type |-> chunk_type,
     data       |-> data,
     crc        |-> checksum(data_crc(chunk_type, data))]

\* A serialisation that writes the chunk type before the length.
as_bytes_type_first(c) ==
    bytes(c.chunk_type) \o to_be_bytes(c.length) \o c.data \o to_be_bytes(c.crc)

as_bytes(c) ==
    to_be_bytes(c.length) \o bytes(c.chunk_type) \o c.data \o to_be_bytes(c.crc)

\* 4 + 4 + length + 4 in u32, then `as usize`.  An overflowing addition
\* panics when the build has overflow checks and wraps when it has not.
U32AddSmall(x, k, overflow_checks) ==
    LET s == USizeAdd(U32AsUSize(x), k) IN
    IF s.hi >= 65536 /\ overflow_checks THEN Panic
    ELSE Ok(USizeAsU32(s))

size_of(len, overflow_checks) ==
    LET a == U32AddSmall(len, 8, overflow_checks) IN
    IF a.kind # "Ok" THEN a
    ELSE LET b == U32AddSmall(a.val, 4, overflow_checks) IN
         IF b.kind # "Ok" THEN b ELSE Ok(U32AsUSize(b.val))

size(c, overflow_checks) == size_of(c.length, overflow_checks)

\* The length test of try_from.
LengthExceeds(length) == U32Gt(length, F64AsU32(LengthLimitLiteral))

\* The checksum error with its two values exchanged.
ChecksumError_swapped(crc, computed) ==
    [kind |-> "Err", error |-> "ChecksumMismatch",
     found |-> computed, expected |-> crc]

\* The error of the checksum test: "Got" is the stored value, "expected"
\* the computed one.
ChecksumError(crc, computed) ==
    [kind |-> "Err", error |-> "ChecksumMismatch",
     found |-> crc, expected |-> computed]

\* A parse that reads the CRC field but does not compare it.
ParseBody_unverified(value, length, chunk_type) ==
    LET end_range == USizeAdd(U32AsUSize(length), 8) IN
    IF ~USizeLeNat(end_range, Len(value)) THEN Panic
    ELSE LET e == USizeToNat(end_range) IN
         IF e + 4 > Len(value) THEN Panic
         ELSE Ok([length     |-> length,
                  chunk_type |-> chunk_type,
                  data       |-> SubSeq(value, 9, e),
                  crc        |-> from_be_bytes(SubSeq(value, e + 1, e + 4))])

\* The part of try_from after the chunk type was read.  Indexing a slice
\* beyond its end panics.  On a 32-bit target 8 + length can overflow
\* usize; the call then panics as well, on the addition or on the range
\* 8..end_range whose end lies below its start.
ParseBody(value, length, chunk_type) ==
    LET end_range == USizeAdd(U32AsUSize(length), 8) IN
    IF ~USizeLeNat(end_range, Len(value)) THEN Panic
    ELSE LET e    == USizeToNat(end_range)
             data == SubSeq(value, 9, e)
         IN  IF e + 4 > Len(value) THEN Panic
             ELSE LET crc      == from_be_bytes(SubSeq(value, e + 1, e + 4))
                      computed == checksum(SubSeq(value, 5, e))
                  IN  IF crc # computed THEN ChecksumError(crc, computed)
                      ELSE Ok([length     |-> length,
                               chunk_type |-> chunk_type,
                               data       |-> data,
                               crc        |-> crc])

Chunk_try_from(value) ==
    IF Len(value) < 4 THEN Panic
    ELSE LET length == from_be_bytes(SubSeq(value, 1, 4)) IN
         IF LengthExceeds(length) THEN Err("LengthTooLarge")
         ELSE IF Len(value) < 8 THEN Panic
         ELSE LET ct == ChunkType_try_from(SubSeq(value, 5, 8)) IN
              IF ct.kind # "Ok" THEN ct
              ELSE ParseBody(value, length, ct.val)

(***************************************************************************)
(* Inputs.                                                                 *)
(***************************************************************************)
\* Largest payload, in bytes, of the enumerated chunks.
MaxData == 2

\* Largest text, in characters, given to from_str.
MaxText == 5

SeqsUpTo(S, n) == UNION {[1..k -> S] : k \in 0..n}

\* Payload bytes: the extremes and a letter.
DataBytes == {0, 65, 255}

\* "RuSt", "Rust", "IEND", "ruST".
ChunkTypes ==
    {<<82, 117, 83, 116>>, <<82, 117, 115, 116>>,
     <<73, 69, 78, 68>>, <<114, 117, 83, 84>>}

\* "This is where your secret message will be!", the payload of the tests
\* of chunk.rs.
TestMessage ==
    <<84, 104, 105, 115, 32, 105, 115, 32, 119, 104, 101, 114, 101, 32, 121,
      111, 117, 114, 32, 115, 101, 99, 114, 101, 116, 32, 109, 101, 115, 115,
      97, 103, 101, 32, 119, 105, 108, 108, 32, 98, 101, 33>>

\* Payloads of the constructed chunks: every short byte string, the message
\* of the tests, and for each type the four bytes of the checksum of the
\* type alone.
Payloads ==
    SeqsUpTo(DataBytes, MaxData)
        \cup {TestMessage}
        \cup {to_be_bytes(checksum(bytes(t))) : t \in ChunkTypes}

\* Bytes of the arrays given to ChunkType::try_from: the ends of the two
\* alphabetic ranges and their neighbours.
TypeByteInputs == {64, 65, 90, 91, 96, 97, 122, 123}

\* Characters of the texts given to from_str: 'A', 'z', '1', U+00E9 (two
\* bytes in UTF-8) and U+20AC (three bytes).
CharInputs == {65, 122, 49, 233, 8364}

\* Length prefixes of the raw buffers: the small lengths, the length of the
\* tests' message, 2^31 - 1, 2^31 and 2^32 - 1.
LengthPrefixes ==
    {to_be_bytes(NatToUSize(n)) : n \in 0..(MaxData + 1)}
        \cup {to_be_bytes(NatToUSize(Len(TestMessage)))}
        \cup {<<127, 255, 255, 255>>, <<128, 0, 0, 0>>, <<255, 255, 255, 255>>}

\* Type fields of the raw buffers: "RuSt", "Rust" and "Ru1t".
RawTypes == {<<82, 117, 83, 116>>, <<82, 117, 115, 116>>, <<82, 117, 49, 116>>}

RawData == SeqsUpTo({0, 255}, MaxData) \cup {TestMessage}

\* Damage done to the CRC field of a raw buffer: none, its lowest bit
\* changed, its two lowest bits changed.
CrcDamage == {0, 1, 3}

CrcField(t, d, damage) ==
    to_be_bytes(XorU32(checksum(t \o d), [hi |-> 0, lo |-> damage]))

FullBuffers ==
    {x[1] \o x[2] \o x[3] \o CrcField(x[2], x[3], x[4]) :
        x \in LengthPrefixes \X RawTypes \X RawData \X CrcDamage}

\* Every full buffer and every truncation of it.
RawBuffers ==
    {SubSeq(y[1], 1, y[2]) :
        y \in {z \in FullBuffers \X (0..(12 + Len(TestMessage))) :
                  z[2] <= Len(z[1])}}

\* Payload sizes too large to enumerate the payload: 2^31 - 1, 2^31,
\* 2^32 - 13, 2^32 - 12, 2^32 - 1, 2^32 and 2^32 + 1 bytes.
LargeSizes ==
    {[hi |-> 32767, lo |-> 65535], [hi |-> 32768, lo |-> 0],
     [hi |-> 65535, lo |-> 65523], [hi |-> 65535, lo |-> 65524],
     [hi |-> 65535, lo |-> 65535], [hi |-> 65536, lo |-> 0],
     [hi |-> 65536, lo |-> 1]}

\* The buffer with its i-th bit inverted (bits counted from 1, the lowest
\* bit of the first byte first).
FlipBitAt(value, i) ==
    [value EXCEPT ![((i - 1) \div 8) + 1] = BitXor(@, Pow(2, (i - 1) % 8), 8)]

\* The type with bit 0x20 of its i-th byte inverted.
ToggleCase(ct, i) == [ct EXCEPT ![i] = BitXor(@, FIFTH_BIT, 8)]

(***************************************************************************)
(* State.  One behaviour is one use of the library: a chunk is built,      *)
(* serialised, possibly damaged, and parsed; or a raw buffer is parsed; or *)
(* a chunk type is made from bytes or text and queried.                    *)
(***************************************************************************)
VARIABLES
    op,        \* the last operation
    chunk,     \* Ok(c) for the chunk made by Chunk::new, else None
    value,     \* the buffer that is given to Chunk::try_from
    bit,       \* the bit of value that was inverted, 0 when none was
    result,    \* what Chunk::try_from(value) returned, None before the call
    type_in,   \* the array given to ChunkType::try_from
    text,      \* the text given to ChunkType::from_str
    ctype,     \* what the last ChunkType constructor returned
    before,    \* the ChunkType before Toggle or before Display and Reparse
    toggled,   \* the byte whose case bit was toggled, 0 when none was
    sized      \* the sizes of a chunk, see Size and NewLarge

vars == <<op, chunk, value, bit, result, type_in, text, ctype, before,
          toggled, sized>>

None == [kind |-> "None"]

Init ==
    /\ op = "init"
    /\ chunk = None
    /\ value = <<>>
    /\ bit = 0
    /\ result = None
    /\ type_in = <<>>
    /\ text = <<>>
    /\ ctype = None
    /\ before = None
    /\ toggled = 0
    /\ sized = None

\* Chunk::new(t, p).
New ==
    /\ op = "init"
    /\ \E t \in ChunkTypes, p \in Payloads :
          chunk' = Ok(Chunk_new(t, p))
    /\ op' = "new"
    /\ UNCHANGED <<value, bit, result, type_in, text, ctype, before,
                   toggled, sized>>

\* chunk.as_bytes().
AsBytes ==
    /\ op = "new"
    /\ value' = as_bytes(chunk.val)
    /\ op' = "as_bytes"
    /\ UNCHANGED <<chunk, bit, result, type_in, text, ctype, before,
                   toggled, sized>>

\* One bit of the serialisation is inverted.
FlipBit ==
    /\ op = "as_bytes"
    /\ \E i \in 1..(8 * Len(value)) :
          /\ value' = FlipBitAt(value, i)
          /\ bit' = i
    /\ op' = "flip"
    /\ UNCHANGED <<chunk, result, type_in, text, ctype, before, toggled,
                   sized>>

\* A buffer that comes from elsewhere.
Raw ==
    /\ op = "init"
    /\ \E b \in RawBuffers : value' = b
    /\ op' = "raw"
    /\ UNCHANGED <<chunk, bit, result, type_in, text, ctype, before,
                   toggled, sized>>

\* Chunk::try_from(value).
TryFrom ==
    /\ op \in {"as_bytes", "flip", "raw"}
    /\ result' = Chunk_try_from(value)
    /\ op' = "try_from"
    /\ UNCHANGED <<chunk, value, bit, type_in, text, ctype, before,
                   toggled, sized>>

\* The length and size of a chunk, of Chunk::new or of a successful parse.
Sizes(c, overflow_checks) ==
    [kind      |-> "Sized",
     data_len  |-> NatToUSize(Len(c.data)),
     length    |-> c.length,
     size      |-> size(c, overflow_checks),
     bytes_len |-> NatToUSize(Len(as_bytes(c)))]

Size ==
    /\ \/ op = "new"
       \/ op = "try_from" /\ result.kind = "Ok"
    /\ \E overflow_checks \in BOOLEAN :
          sized' = Sizes(IF op = "new" THEN chunk.val ELSE result.val,
                         overflow_checks)
    /\ op' = "size"
    /\ UNCHANGED <<chunk, value, bit, result, type_in, text, ctype, before,
                   toggled>>

\* Chunk::new on a payload of n bytes that is not enumerated: only what
\* depends on the payload's size is kept.  as_bytes chains 4, 4, n and 4
\* bytes.
LargeSizesOf(n, overflow_checks) ==
    [kind      |-> "Sized",
     data_len  |-> n,
     length    |-> USizeAsU32(n),
     size      |-> size_of(USizeAsU32(n), overflow_checks),
     bytes_len |-> USizeAdd(n, 12)]

NewLarge ==
    /\ op = "init"
    /\ \E n \in LargeSizes, overflow_checks \in BOOLEAN :
          sized' = LargeSizesOf(n, overflow_checks)
    /\ op' = "new_large"
    /\ UNCHANGED <<chunk, value, bit, result, type_in, text, ctype, before,
                   toggled>>

\* ChunkType::try_from(b).
FromBytes ==
    /\ op = "init"
    /\ \E b \in [1..4 -> TypeByteInputs] :
          /\ type_in' = b
          /\ ctype' = ChunkType_try_from(b)
    /\ op' = "from_bytes"
    /\ UNCHANGED <<chunk, value, bit, result, text, before, toggled, sized>>

\* The case bit of one byte of a chunk type is toggled.
Toggle ==
    /\ op = "from_bytes"
    /\ ctype.kind = "Ok"
    /\ \E i \in 1..4 :
          /\ toggled' = i
          /\ ctype' = ChunkType_try_from(ToggleCase(bytes(ctype.val), i))
    /\ before' = ctype
    /\ op' = "toggle"
    /\ UNCHANGED <<chunk, value, bit, result, type_in, text, sized>>

\* ChunkType::from_str(s).
FromStr ==
    /\ op = "init"
    /\ \E s \in SeqsUpTo(CharInputs, MaxText) :
          /\ text' = s
          /\ ctype' = from_str(s)
    /\ op' = "from_str"
    /\ UNCHANGED <<chunk, value, bit, result, type_in, before, toggled,
                   sized>>

\* ct.to_string().
Display ==
    /\ op = "from_bytes"
    /\ ctype.kind = "Ok"
    /\ text' = to_string(ctype.val)
    /\ op' = "display"
    /\ UNCHANGED <<chunk, value, bit, result, type_in, ctype, before,
                   toggled, sized>>

\* ChunkType::from_str of the displayed text.
Reparse ==
    /\ op = "display"
    /\ before' = ctype
    /\ ctype' = from_str(text)
    /\ op' = "reparse"
    /\ UNCHANGED <<chunk, value, bit, result, type_in, text, toggled, sized>>

Next ==
    \/ New
    \/ AsBytes
    \/ FlipBit
    \/ Raw
    \/ TryFrom
    \/ Size
    \/ NewLarge
    \/ FromBytes
    \/ Toggle
    \/ FromStr
    \/ Display
    \/ Reparse

Spec == Init /\ [][Next]_vars

(***************************************************************************)
(* Properties.                                                             *)
(***************************************************************************)
\* The value of a u32 below 2^31 given as a number.
U32Of(n) == [hi |-> n \div 65536, lo |-> n % 65536]

\* 2882656334 and 2882656333, the checksums of the tests of chunk.rs.
TestCrc == [hi |-> 43985, lo |-> 55374]

TestBadCrc == [hi |-> 43985, lo |-> 55373]

Parsed == result # None

\* The serialisation of the chunk was parsed with no bit changed.
ParsedIntact == Parsed /\ chunk.kind = "Ok" /\ bit = 0

\* The serialisation of the chunk was parsed with one bit changed.
ParsedTampered == Parsed /\ bit # 0

Alphabetic(b) == b \in 65..90 \/ b \in 97..122

\* Bit 0x20 of a byte.
CaseBit(b) == (b \div 32) % 2

\* C1: parsing the serialisation of Chunk::new(t, p) succeeds and gives a
\* chunk with the same length, chunk type, data and crc.
RoundTrip ==
    ParsedIntact =>
        /\ result.kind = "Ok"
        /\ result.val.length = chunk.val.length
        /\ result.val.chunk_type = chunk.val.chunk_type
        /\ result.val.data = chunk.val.data
        /\ result.val.crc = chunk.val.crc

RoundTripWitness ==
    /\ ParsedIntact
    /\ result.kind = "Ok"
    /\ Len(chunk.val.data) = MaxData

\* The buffer has a length prefix, and it is above 2^31 - 1.
PrefixAboveCap == Len(value) >= 4 /\ value[1] >= 128

\* C2: a buffer whose length prefix is above 2^31 - 1 is refused with
\* LengthTooLarge, whatever follows the prefix.
LengthCap ==
    (Parsed /\ PrefixAboveCap) => result = Err("LengthTooLarge")

\* The buffer is shorter than 12 bytes, or than 12 + length bytes for a
\* length prefix within the cap.
IsTruncated ==
    \/ Len(value) < 12
    \/ /\ value[1] < 128
       /\ ~USizeLeNat(USizeAdd(from_be_bytes(SubSeq(value, 1, 4)), 12),
                      Len(value))

\* C3: a truncated buffer is refused with the error Truncated, and a buffer
\* of exactly 12 + length bytes with a valid type and CRC is parsed.
TruncatedIsError ==
    /\ (Parsed /\ IsTruncated) => result = Err("Truncated")
    /\ (ParsedIntact /\ ~IsTruncated) => result.kind = "Ok"

\* The buffer is long enough for its length prefix and its type is valid.
WellFormed ==
    /\ Len(value) >= 12
    /\ USizeLeNat(USizeAdd(from_be_bytes(SubSeq(value, 1, 4)), 12), Len(value))
    /\ \A i \in 5..8 : Alphabetic(value[i])

StoredCrc ==
    LET n == from_be_bytes(SubSeq(value, 1, 4)).lo IN
    from_be_bytes(SubSeq(value, 9 + n, 12 + n))

ComputedCrc ==
    LET n == from_be_bytes(SubSeq(value, 1, 4)).lo IN
    checksum(SubSeq(value, 5, 8 + n))

\* The buffer of test_invalid_chunk_from_bytes.
TestBadBuffer ==
    to_be_bytes(U32Of(42)) \o <<82, 117, 83, 116>> \o TestMessage
        \o to_be_bytes(TestBadCrc)

\* C4: a well-formed buffer whose stored CRC differs from the CRC of its
\* type and data is refused, the error naming the computed value as
\* expected and the stored one as found; the buffer of the tests gives
\* expected 2882656334 and found 2882656333.
ChecksumMismatch ==
    /\ (Parsed /\ WellFormed /\ StoredCrc # ComputedCrc) =>
          /\ result.kind = "Err"
          /\ result.error = "ChecksumMismatch"
          /\ result.expected = ComputedCrc
          /\ result.found = StoredCrc
    /\ (Parsed /\ value = TestBadBuffer) =>
          /\ result.kind = "Err"
          /\ result.expected = TestCrc
          /\ result.found = TestBadCrc

ChecksumMismatchWitness ==
    /\ Parsed
    /\ value = TestBadBuffer
    /\ result.kind = "Err"

CrcOf(c) == checksum(c.chunk_type \o c.data)

\* C5: the crc of a chunk, made by Chunk::new or by a successful parse, is
\* the CRC-32 of its four type bytes followed by its data; for "RuSt" and
\* the message of the tests it is 2882656334.
CrcContract ==
    /\ chunk.kind = "Ok" => chunk.val.crc = CrcOf(chunk.val)
    /\ (Parsed /\ result.kind = "Ok") => result.val.crc = CrcOf(result.val)
    /\ (chunk.kind = "Ok" /\ chunk.val.chunk_type = <<82, 117, 83, 116>>
          /\ chunk.val.data = TestMessage) => chunk.val.crc = TestCrc

CrcContractWitness ==
    /\ Parsed
    /\ result.kind = "Ok"
    /\ result.val.data = TestMessage
    /\ result.val.crc = TestCrc
    /\ chunk.kind = "Ok"

\* C6 as stated: whichever bit of the serialisation is inverted, parsing
\* never returns a chunk.
TamperNeverParses == ParsedTampered => result.kind # "Ok"

\* C6, amended: when the inverted bit lies in the type, the data or the CRC
\* (after the 32 bits of the length prefix), parsing fails with
\* ChecksumMismatch or InvalidTypeByte and returns no chunk.
TamperDetected ==
    (ParsedTampered /\ bit > 32) =>
        /\ result.kind = "Err"
        /\ result.error \in {"ChecksumMismatch", "InvalidTypeByte"}

TamperDetectedWitness ==
    /\ ParsedTampered
    /\ bit > 8 * (8 + MaxData)
    /\ result.kind = "Err"
    /\ result.error = "ChecksumMismatch"

\* C7: for every chunk, the number of bytes of as_bytes, size() and
\* 12 + length agree and length is the number of bytes of data.
SerializationSize ==
    sized.kind = "Sized" =>
        /\ sized.size = Ok(sized.bytes_len)
        /\ sized.bytes_len = USizeAdd(U32AsUSize(sized.length), 12)
        /\ U32AsUSize(sized.length) = sized.data_len

\* C8: ChunkType::try_from succeeds exactly on four alphabetic bytes, fails
\* with InvalidTypeByte otherwise, accepts a lower-case third byte, and
\* keeps the bytes it was given.
FromBytesValid ==
    op = "from_bytes" =>
        /\ ctype.kind = "Ok" <=> \A i \in 1..4 : Alphabetic(type_in[i])
        /\ ctype.kind # "Ok" => ctype = Err("InvalidTypeByte")
        /\ ctype.kind = "Ok" => bytes(ctype.val) = type_in

FromBytesValidWitness ==
    /\ op = "from_bytes"
    /\ ctype.kind = "Ok"
    /\ type_in[3] = 122

\* The four predicates of a chunk type, in the order of its bytes.
Predicates(ct) ==
    <<is_critical(ct), is_public(ct),
      is_reserved_bit_valid(ct) /\ is_valid(ct), is_safe_to_copy(ct)>>

\* C9: each predicate tests bit 0x20 of its own byte (clear for the first
\* three, set for the fourth), and toggling that bit of one byte inverts
\* the predicate of that byte and no other.
PredicateBits ==
    /\ (op \in {"from_bytes", "toggle"} /\ ctype.kind = "Ok") =>
          /\ is_critical(ctype.val) <=> CaseBit(ctype.val[1]) = 0
          /\ is_public(ctype.val) <=> CaseBit(ctype.val[2]) = 0
          /\ is_reserved_bit_valid(ctype.val) <=> CaseBit(ctype.val[3]) = 0
          /\ is_valid(ctype.val) <=> CaseBit(ctype.val[3]) = 0
          /\ is_safe_to_copy(ctype.val) <=> CaseBit(ctype.val[4]) = 1
    /\ op = "toggle" =>
          /\ ctype.kind = "Ok"
          /\ \A i \in 1..4 :
                (Predicates(ctype.val)[i] # Predicates(before.val)[i])
                    <=> i = toggled

PredicateBitsWitness ==
    /\ op = "toggle"
    /\ toggled = 4
    /\ ctype.kind = "Ok"
    /\ is_safe_to_copy(ctype.val)
    /\ ~is_reserved_bit_valid(ctype.val)

\* Number of bytes of the UTF-8 form of a text.
ByteCount(s) ==
    Len(s) + Cardinality({i \in 1..Len(s) : s[i] >= 128})
           + Cardinality({i \in 1..Len(s) : s[i] >= 2048})
           + Cardinality({i \in 1..Len(s) : s[i] >= 65536})

HasNonAscii(s) == \E i \in 1..Len(s) : s[i] >= 128

\* The result for a text of four ASCII characters, and Display followed by
\* from_str.
FromStrFourAscii ==
    /\ (op = "from_str" /\ Len(text) = 4 /\ ~HasNonAscii(text)) =>
          IF \A i \in 1..4 : Alphabetic(text[i])
          THEN ctype = ChunkType_try_from(text) /\ ctype.kind = "Ok"
          ELSE ctype = Err("InvalidTypeByte")
    /\ op = "reparse" => (ctype = before /\ ctype.kind = "Ok")

\* C10 as stated: WrongLength when the text is not four characters,
\* NonAscii when one of its four characters is outside ASCII,
\* InvalidTypeByte when one is not alphabetic, else the ChunkType of its
\* bytes.
FromStrByChars ==
    /\ (op = "from_str" /\ Len(text) # 4) => ctype = Err("WrongLength")
    /\ (op = "from_str" /\ Len(text) = 4 /\ HasNonAscii(text)) =>
          ctype = Err("NonAscii")
    /\ FromStrFourAscii

\* C10, amended: WrongLength when the UTF-8 form of the text is not four
\* bytes, NonAscii when it is four bytes and has a character outside
\* ASCII, InvalidTypeByte when one of its four ASCII characters is not
\* alphabetic, else the ChunkType of its bytes.
FromStrByBytes ==
    /\ (op = "from_str" /\ ByteCount(text) # 4) => ctype = Err("WrongLength")
    /\ (op = "from_str" /\ ByteCount(text) = 4 /\ HasNonAscii(text)) =>
          ctype = Err("NonAscii")
    /\ FromStrFourAscii

FromStrByBytesWitness ==
    /\ op = "from_str"
    /\ Len(text) = 2
    /\ ctype = Err("NonAscii")

====
